---- MODULE Spec2Model ----
(***************************************************************************)
(* A model of read-osm-rs (src/src/main.rs): one invocation of main, from  *)
(* the cache check through download, ingestion, graph construction, the    *)
(* cache write, the shortest-path search and the route reconstruction.     *)
(*                                                                         *)
(* Representation.                                                         *)
(*  - Node identifiers are 1 .. MaxNode; NodeId(-1) is NoParent.           *)
(*  - A coordinate is [lat, lon]; every node lies on the meridian lon = 0  *)
(*    at an integer latitude step, so haversine_distance is proportional   *)
(*    to the difference of the latitudes.                                  *)
(*  - An f64 length in metres is a fixed-point integer counting tenths of  *)
(*    a millimetre (1 m = 10000), so that `(edge_len * 1000.0).round()`    *)
(*    really rounds.                                                       *)
(*  - A file is "absent", "partial" (created or truncated, not completely  *)
(*    written) or "complete".                                              *)
(***************************************************************************)
EXTENDS Integers, Sequences, FiniteSets, TLC

(***************************************************************************)
(* Bounds of the model.                                                    *)
(***************************************************************************)
MaxNode == 3
MaxLat == 2
MaxWays == 2
MaxWayLen == 3
MaxEdges == 3

(***************************************************************************)
(* Constants of the program.                                               *)
(***************************************************************************)
START_NODE_ID == 3
GOAL_NODE_ID == 2
NoParent == 0 - 1

NodeIds == 1 .. MaxNode
Lats == 0 .. MaxLat

NoTag == "(absent)"
TagKeys == {"highway", "surface", "access", "oneway"}

INACCESSIBLE_TAGS ==
    << <<"highway", "motorway">>,
       <<"highway", "motorway_link">>,
       <<"access", "agricultural">>,
       <<"access", "delivery">>,
       <<"access", "forestry">>,
       <<"access", "delivery">>,
       <<"access", "use_sidepath">> >>

(***************************************************************************)
(* Tags: a map from key to value, NoTag where the key is absent.           *)
(***************************************************************************)
contains_key(tags, key) == tags[key] # NoTag

contains(tags, key, value) == tags[key] = value

\* Variant: the surface of the way is not looked at.
is_cyclable_way_AnySurface(way) ==
    LET is_road == contains_key(way.tags, "highway")
        is_accessible ==
            \A i \in 1 .. Len(INACCESSIBLE_TAGS) :
                ~contains(way.tags, INACCESSIBLE_TAGS[i][1], INACCESSIBLE_TAGS[i][2])
    IN  is_road /\ is_accessible

is_cyclable_way(way) ==
    LET is_road == contains_key(way.tags, "highway")
        is_paved ==
            \/ ~contains_key(way.tags, "surface")
            \/ contains(way.tags, "surface", "paved")
            \/ contains(way.tags, "surface", "asphalt")
            \/ contains(way.tags, "surface", "concrete")
            \/ contains(way.tags, "surface", "paving_stones")
        is_accessible ==
            \A i \in 1 .. Len(INACCESSIBLE_TAGS) :
                ~contains(way.tags, INACCESSIBLE_TAGS[i][1], INACCESSIBLE_TAGS[i][2])
    IN  is_road /\ is_paved /\ is_accessible

(***************************************************************************)
(* Geometry and weights.                                                   *)
(***************************************************************************)
Abs(x) == IF x < 0 THEN 0 - x ELSE x

\* Length of one latitude step along the meridian, in tenths of a millimetre.
LatStep == 14

haversine_distance(a, b) == LatStep * Abs(a.lat - b.lat)

\* Variant: the length in millimetres is truncated instead of rounded.
EdgeMm_Truncated(edge_len) == edge_len \div 10

\* (edge_len * 1000.0).round() as u64, for a non-negative length.
EdgeMm(edge_len) == (edge_len + 5) \div 10

(***************************************************************************)
(* HashMap helpers.                                                        *)
(***************************************************************************)
Insert(map, key, value) ==
    [k \in DOMAIN map \cup {key} |-> IF k = key THEN value ELSE map[k]]

\* adj_list.entry(u).or_insert(Vec::new()).push(edge)
PushEdge(adj, u, edge) ==
    IF u \in DOMAIN adj
        THEN [adj EXCEPT ![u] = Append(@, edge)]
        ELSE Insert(adj, u, <<edge>>)

EmptyMap == [k \in {} |-> 0]

(***************************************************************************)
(* Ingestion of one OsmObj of the stream (the body of the for loop).       *)
(***************************************************************************)
\* Variant: an accepted way replaces the ways accepted before it.
IngestObj_KeepLast(st, obj) ==
    CASE obj.kind = "error" -> [st EXCEPT !.panic = TRUE]
      [] obj.kind = "node" ->
            [st EXCEPT !.nodes = Insert(@, obj.id, [lat |-> obj.lat, lon |-> obj.lon])]
      [] obj.kind = "way" ->
            IF ~is_cyclable_way(obj)
                THEN st
                ELSE [st EXCEPT !.ways = <<obj>>]
      [] OTHER -> st

IngestObj(st, obj) ==
    CASE obj.kind = "error" -> [st EXCEPT !.panic = TRUE]
      [] obj.kind = "node" ->
            [st EXCEPT !.nodes = Insert(@, obj.id, [lat |-> obj.lat, lon |-> obj.lon])]
      [] obj.kind = "way" ->
            IF ~is_cyclable_way(obj)
                THEN st
                ELSE [st EXCEPT !.ways = Append(@, obj)]
      [] OTHER -> st

(***************************************************************************)
(* Edge construction for one way.                                          *)
(***************************************************************************)
tuple_windows(s) == [i \in 1 .. (Len(s) - 1) |-> <<s[i], s[i + 1]>>]

\* Variant: the reverse edge is pushed whether or not the way is one-way.
AddPair_AlwaysReverse(g, nodes, pair, is_bidirectional) ==
    LET u == pair[1]
        v == pair[2]
    IN  IF g.panic \/ u \notin DOMAIN nodes \/ v \notin DOMAIN nodes
            THEN [g EXCEPT !.panic = TRUE]
            ELSE LET edge_len == haversine_distance(nodes[u], nodes[v])
                     fwd == PushEdge(g.adj_list, u, <<v, edge_len>>)
                 IN  [g EXCEPT !.node_ids = @ \cup {u, v},
                               !.adj_list = PushEdge(fwd, v, <<u, edge_len>>)]

AddPair(g, nodes, pair, is_bidirectional) ==
    LET u == pair[1]
        v == pair[2]
    IN  IF g.panic \/ u \notin DOMAIN nodes \/ v \notin DOMAIN nodes
            THEN [g EXCEPT !.panic = TRUE]
            ELSE LET edge_len == haversine_distance(nodes[u], nodes[v])
                     fwd == PushEdge(g.adj_list, u, <<v, edge_len>>)
                 IN  [g EXCEPT !.node_ids = @ \cup {u, v},
                               !.adj_list = IF is_bidirectional
                                               THEN PushEdge(fwd, v, <<u, edge_len>>)
                                               ELSE fwd]

RECURSIVE AddPairs(_, _, _, _, _)
AddPairs(g, nodes, pairs, is_bidirectional, i) ==
    IF i > Len(pairs)
        THEN g
        ELSE AddPairs(AddPair(g, nodes, pairs[i], is_bidirectional),
                      nodes, pairs, is_bidirectional, i + 1)

AddWay(g, nodes, way) ==
    LET is_bidirectional == ~contains(way.tags, "oneway", "yes")
    IN  AddPairs(g, nodes, tuple_windows(way.nodes), is_bidirectional, 1)

\* nodes.into_iter().filter(|(id, _)| node_ids.contains(id)).collect()
\* Variant: every node read from the dump is kept.
Prune_KeepAll(nodes, node_ids) == nodes

Prune(nodes, node_ids) == [id \in DOMAIN nodes \cap node_ids |-> nodes[id]]

(***************************************************************************)
(* The search loop.  The frontier is a BinaryHeap of Reverse((dist, id)):  *)
(* a sequence in push order from which pop removes the least pair.         *)
(* `settled` records, for each node, the distance it was popped with (the  *)
(* program prints it only for the goal).  The u64 sum cannot overflow on   *)
(* a route without repeated nodes over lengths of at most half the         *)
(* Earth's circumference, so it is a plain sum.                            *)
(***************************************************************************)
HeapLess(a, b) == a[1] < b[1] \/ (a[1] = b[1] /\ a[2] < b[2])

HeapTop(queue) ==
    CHOOSE i \in 1 .. Len(queue) :
        \A j \in 1 .. Len(queue) :
            /\ ~HeapLess(queue[j], queue[i])
            /\ (queue[j] = queue[i] => i <= j)

RemoveAt(seq, i) == [j \in 1 .. (Len(seq) - 1) |-> IF j < i THEN seq[j] ELSE seq[j + 1]]

SearchInit ==
    [queue |-> << <<0, START_NODE_ID>> >>,
     parent |-> Insert(EmptyMap, START_NODE_ID, NoParent),
     settled |-> EmptyMap,
     dist |-> 0,
     current |-> NoParent,
     goal |-> FALSE]

\* One neighbor of the popped node (the body of the inner for loop).
Relax(s, edge) ==
    LET neighbor == edge[1]
        edge_len == edge[2]
    IN  IF neighbor \in DOMAIN s.parent
            THEN s
            ELSE [s EXCEPT !.queue = Append(@, <<s.dist + EdgeMm(edge_len), neighbor>>),
                           !.parent = Insert(@, neighbor, s.current)]

RECURSIVE Expand(_, _, _)
Expand(s, edges, i) ==
    IF i > Len(edges) THEN s ELSE Expand(Relax(s, edges[i]), edges, i + 1)

\* One iteration of `while let Some(Reverse((dist, current))) = queue.pop()`.
PopStep(s, adj) ==
    LET i == HeapTop(s.queue)
        top == s.queue[i]
        popped == [s EXCEPT !.queue = RemoveAt(@, i),
                            !.dist = top[1],
                            !.current = top[2],
                            !.settled = IF top[2] \in DOMAIN @ THEN @
                                        ELSE Insert(@, top[2], top[1])]
    IN  IF top[2] = GOAL_NODE_ID
            THEN [popped EXCEPT !.goal = TRUE]
            ELSE IF top[2] \notin DOMAIN adj
                THEN popped
                ELSE Expand(popped, adj[top[2]], 1)

RECURSIVE RunSearch(_, _)
RunSearch(s, adj) ==
    IF s.goal \/ s.queue = <<>> THEN s ELSE RunSearch(PopStep(s, adj), adj)

(***************************************************************************)
(* Route reconstruction.  `route` lists the node identifiers whose         *)
(* coordinates were pushed, in the order of `coords`.                      *)
(***************************************************************************)
Coord(node) == [x |-> node.lon, y |-> node.lat]

WalkInit(nodes) ==
    IF GOAL_NODE_ID \notin DOMAIN nodes
        THEN [cur_id |-> GOAL_NODE_ID, coords |-> <<>>, route |-> <<>>, panic |-> TRUE]
        ELSE [cur_id |-> GOAL_NODE_ID,
              coords |-> <<Coord(nodes[GOAL_NODE_ID])>>,
              route |-> <<GOAL_NODE_ID>>,
              panic |-> FALSE]

\* Variant: the predecessor is pushed at the back of the route.
WalkStep_PushBack(w, nodes, parent) ==
    IF w.cur_id \notin DOMAIN parent
        THEN [w EXCEPT !.panic = TRUE]
        ELSE LET next == parent[w.cur_id]
             IN  IF next \notin DOMAIN nodes
                     THEN [w EXCEPT !.cur_id = next, !.panic = TRUE]
                     ELSE [w EXCEPT !.cur_id = next,
                                    !.coords = Append(@, Coord(nodes[next])),
                                    !.route = Append(@, next)]

\* One iteration of `while cur_id != START_NODE_ID`.
WalkStep(w, nodes, parent) ==
    IF w.cur_id \notin DOMAIN parent
        THEN [w EXCEPT !.panic = TRUE]
        ELSE LET next == parent[w.cur_id]
             IN  IF next \notin DOMAIN nodes
                     THEN [w EXCEPT !.cur_id = next, !.panic = TRUE]
                     ELSE [w EXCEPT !.cur_id = next,
                                    !.coords = <<Coord(nodes[next])>> \o @,
                                    !.route = <<next>> \o @]

RECURSIVE RunWalk(_, _, _)
RunWalk(w, nodes, parent) ==
    IF w.panic \/ w.cur_id = START_NODE_ID
        THEN w
        ELSE RunWalk(WalkStep(w, nodes, parent), nodes, parent)

(***************************************************************************)
(* The whole computation on a stream of objects, by the same steps: what   *)
(* an invocation without I/O failure computes from the objects in the      *)
(* order they arrive.                                                      *)
(***************************************************************************)
RECURSIVE IngestAll(_, _, _)
IngestAll(st, objs, i) ==
    IF i > Len(objs) \/ st.panic THEN st ELSE IngestAll(IngestObj(st, objs[i]), objs, i + 1)

RECURSIVE BuildAll(_, _, _, _)
BuildAll(g, nodes, ways, i) ==
    IF i > Len(ways) \/ g.panic THEN g ELSE BuildAll(AddWay(g, nodes, ways[i]), nodes, ways, i + 1)

IngestInit == [nodes |-> EmptyMap, ways |-> <<>>, panic |-> FALSE]

BuildInit == [adj_list |-> EmptyMap, node_ids |-> {}, panic |-> FALSE]

Panicked == [outcome |-> "panic"]

RouteOf(objs) ==
    LET st == IngestAll(IngestInit, objs, 1)
    IN  IF st.panic THEN Panicked
        ELSE LET g == BuildAll(BuildInit, st.nodes, st.ways, 1)
             IN  IF g.panic THEN Panicked
                 ELSE LET pruned == Prune(st.nodes, g.node_ids)
                          s == RunSearch(SearchInit, g.adj_list)
                          w == RunWalk(WalkInit(pruned), pruned, s.parent)
                      IN  IF w.panic THEN Panicked
                          ELSE [outcome |-> "ok", route |-> w.route,
                                coords |-> w.coords, dist |-> s.dist]

(***************************************************************************)
(* State.                                                                  *)
(*   fs     the four files of the program: "absent", "partial", "complete" *)
(*   disk   what the complete cache and result files hold                  *)
(*   osm    the objects of the map dump, in the order the reader yields    *)
(*          them (of the local file, or of the remote one to download)     *)
(*   pc     the position of main                                           *)
(*   fs0    the files as the invocation found them                         *)
(*   failed the step whose I/O failed, "none" while none has             *)
(* and the variables of main under their own names.                        *)
(***************************************************************************)
VARIABLES pc, fs, disk, osm, fs0, failed,
          pos, nodes, ways,
          wi, adj_list, node_ids,
          queue, parent, settled, dist, current,
          cur_id, coords, route,
          outcome, err

fileVars == <<fs, disk>>
ingestVars == <<pos, nodes, ways>>
buildVars == <<wi, adj_list, node_ids>>
searchVars == <<queue, parent, settled, dist, current>>
walkVars == <<cur_id, coords, route>>
exitVars == <<outcome, err, failed>>
vars == <<pc, fs, disk, osm, fs0, failed, pos, nodes, ways, wi, adj_list, node_ids,
          queue, parent, settled, dist, current, cur_id, coords, route, outcome, err>>

(***************************************************************************)
(* Map dumps.                                                              *)
(***************************************************************************)
NodeObj(id, lat) == [kind |-> "node", id |-> id, lat |-> lat, lon |-> 0]

WayObj(way_nodes, tags) == [kind |-> "way", nodes |-> way_nodes, tags |-> tags]

RelationObj == [kind |-> "relation"]

\* An object the decoder fails on: Result::unwrap panics.
ErrObj == [kind |-> "error"]

Tags(highway, surface, access, oneway) ==
    [k \in TagKeys |->
        CASE k = "highway" -> highway
          [] k = "surface" -> surface
          [] k = "access" -> access
          [] OTHER -> oneway]

PlainTags == Tags("residential", NoTag, NoTag, NoTag)

OnewayTags == Tags("residential", NoTag, NoTag, "yes")

AllTags ==
    {Tags(h, s, a, o) :
        h \in {NoTag, "residential", "motorway", "motorway_link"},
        s \in {NoTag, "paved", "asphalt", "concrete", "paving_stones", "dirt"},
        a \in {NoTag, "agricultural", "delivery", "forestry", "use_sidepath", "yes"},
        o \in {NoTag, "yes"}}

SeqsUpTo(S, n) == UNION {[1 .. k -> S] : k \in 0 .. n}

Shapes == SeqsUpTo(NodeIds, MaxWayLen)

SimpleShapes == {s \in Shapes : \A i, j \in 1 .. Len(s) : i # j => s[i] # s[j]}

Layouts == [NodeIds -> Lats]

FixedLayout == [n \in NodeIds |-> n % (MaxLat + 1)]

NodeSeq(layout) == [n \in NodeIds |-> NodeObj(n, layout[n])]

Reorderings(s) ==
    {[i \in 1 .. Len(s) |-> s[f[i]]] :
        f \in {g \in [1 .. Len(s) -> 1 .. Len(s)] :
                 \A i, j \in 1 .. Len(s) : i # j => g[i] # g[j]}}

\* One way between the two fixed points, under every tag set.
TagFiles ==
    {<<NodeObj(START_NODE_ID, 0), NodeObj(GOAL_NODE_ID, 1),
       WayObj(<<START_NODE_ID, GOAL_NODE_ID>>, t)>> : t \in AllTags}

\* Every placement of the nodes, under simple two-way ways.
GeometryFiles ==
    {NodeSeq(l) \o ws :
        l \in Layouts,
        ws \in SeqsUpTo({WayObj(s, PlainTags) : s \in SimpleShapes}, MaxWays)}

\* Every list of ways, one-way or not, closed or not, on one placement.
DirectionFiles ==
    {NodeSeq(FixedLayout) \o ws :
        ws \in SeqsUpTo({WayObj(s, t) : s \in Shapes, t \in {PlainTags, OnewayTags}},
                        MaxWays)}

\* Dumps lacking some nodes, holding a relation or an undecodable object.
SparseFiles ==
    {SelectSeq(NodeSeq(FixedLayout), LAMBDA o : o.id \in present)
        \o extra \o <<WayObj(s, PlainTags)>> :
        present \in SUBSET NodeIds,
        extra \in {<<>>, <<RelationObj>>, <<ErrObj>>},
        s \in {t \in Shapes : Len(t) <= 2}}

\* Every arrival order of the nodes and of two ways leaving the source.
OrderFiles ==
    UNION {Reorderings(NodeSeq(FixedLayout) \o ws) :
        ws \in [1 .. 2 -> {WayObj(s, PlainTags) :
                    s \in {t \in SimpleShapes : Len(t) = 2 /\ t[1] = START_NODE_ID}}]}

PbfFiles == TagFiles \cup GeometryFiles \cup DirectionFiles \cup SparseFiles \cup OrderFiles

(***************************************************************************)
(* Cache artifacts found at the start: any adjacency graph of at most      *)
(* MaxEdges edges, with the nodes of its edges in the node table.          *)
(***************************************************************************)
Weights == {4, 15}

EdgeLists == SeqsUpTo(NodeIds \X NodeIds \X Weights, MaxEdges)

RECURSIVE AdjOf(_, _, _)
AdjOf(adj, edges, i) ==
    IF i > Len(edges)
        THEN adj
        ELSE AdjOf(PushEdge(adj, edges[i][1], <<edges[i][2], edges[i][3]>>), edges, i + 1)

TableOf(edges) ==
    [n \in {edges[i][1] : i \in 1 .. Len(edges)} \cup {edges[i][2] : i \in 1 .. Len(edges)}
        |-> [lat |-> FixedLayout[n], lon |-> 0]]

CachedGraphs ==
    {[nodes |-> TableOf(edges), adj_list |-> AdjOf(EmptyMap, edges, 1), result |-> <<>>] :
        edges \in EdgeLists}

EmptyDisk == [nodes |-> EmptyMap, adj_list |-> EmptyMap, result |-> <<>>]

FileStates == {"absent", "partial", "complete"}

Fs(pbf, nodes_json, adj_list_json) ==
    [pbf |-> pbf, nodes_json |-> nodes_json, adj_list_json |-> adj_list_json,
     result |-> "absent"]

MixedCaches ==
    (FileStates \X FileStates) \ {<<"absent", "absent">>, <<"complete", "complete">>}

Worlds ==
    \* no cache, the dump on disk
    {[fs |-> Fs("complete", "absent", "absent"), disk |-> EmptyDisk, osm |-> f] :
        f \in PbfFiles}
    \cup
    \* no cache, no dump: it is downloaded
    {[fs |-> Fs("absent", "absent", "absent"), disk |-> EmptyDisk, osm |-> f] :
        f \in SparseFiles}
    \cup
    \* both cache artifacts, completely written
    {[fs |-> Fs("absent", "complete", "complete"), disk |-> d, osm |-> <<>>] :
        d \in CachedGraphs}
    \cup
    \* one artifact only, or a truncated one
    {[fs |-> Fs("complete", c[1], c[2]), disk |-> EmptyDisk, osm |-> f] :
        c \in MixedCaches,
        f \in {g \in TagFiles : g[3].tags["surface"] = NoTag /\ g[3].tags["access"] = NoTag}}

Init ==
    /\ \E w \in Worlds :
        /\ fs = w.fs
        /\ disk = w.disk
        /\ osm = w.osm
        /\ fs0 = w.fs
    /\ pc = "start"
    /\ pos = 1
    /\ nodes = EmptyMap
    /\ ways = <<>>
    /\ wi = 1
    /\ adj_list = EmptyMap
    /\ node_ids = {}
    /\ queue = <<>>
    /\ parent = EmptyMap
    /\ settled = EmptyMap
    /\ dist = 0
    /\ current = NoParent
    /\ cur_id = NoParent
    /\ coords = <<>>
    /\ route = <<>>
    /\ outcome = "running"
    /\ err = "none"
    /\ failed = "none"

(***************************************************************************)
(* Actions: the steps of main.                                             *)
(***************************************************************************)
Exit(o, e, step) ==
    /\ pc' = "exit"
    /\ outcome' = o
    /\ err' = e
    /\ failed' = step

\* if nodes_json_path.exists() && adj_list_json_path.exists() { .. } else { .. }
CheckCache ==
    /\ pc = "start"
    /\ pc' = IF fs.nodes_json # "absent" /\ fs.adj_list_json # "absent"
                THEN "load_nodes"
                ELSE IF fs.pbf = "absent" THEN "download_get" ELSE "open_pbf"
    /\ UNCHANGED <<fileVars, osm, fs0, ingestVars, buildVars, searchVars,
                   walkVars, exitVars>>

\* nodes = serde_json::from_reader(BufReader::new(File::open(nodes_json_path)?))?
LoadNodes ==
    /\ pc = "load_nodes"
    /\ \/ /\ fs.nodes_json = "complete"
          /\ nodes' = disk.nodes
          /\ pc' = "load_adj_list"
          /\ UNCHANGED exitVars
       \/ /\ fs.nodes_json = "partial"
          /\ Exit("error", "CacheCorruption", "none")
          /\ UNCHANGED nodes
       \/ /\ Exit("error", "Io", "open_nodes_json")
          /\ UNCHANGED nodes
    /\ UNCHANGED <<fileVars, osm, fs0, pos, ways, buildVars, searchVars, walkVars>>

\* adj_list = serde_json::from_reader(BufReader::new(File::open(adj_list_json_path)?))?
LoadAdjList ==
    /\ pc = "load_adj_list"
    /\ \/ /\ fs.adj_list_json = "complete"
          /\ adj_list' = disk.adj_list
          /\ pc' = "search_init"
          /\ UNCHANGED exitVars
       \/ /\ fs.adj_list_json = "partial"
          /\ Exit("error", "CacheCorruption", "none")
          /\ UNCHANGED adj_list
       \/ /\ Exit("error", "Io", "open_adj_list_json")
          /\ UNCHANGED adj_list
    /\ UNCHANGED <<fileVars, osm, fs0, ingestVars, wi, node_ids, searchVars, walkVars>>

\* The or_else closure of main: fs::remove_file(pbf_path)?; Err(err).
\* remove_file of a file that does not exist fails, and `?` returns that
\* failure in place of the download's.
FetchFailed(step) ==
    IF fs.pbf = "absent"
        THEN /\ Exit("error", "RemoveFileNotFound", step)
             /\ UNCHANGED fs
        ELSE /\ Exit("error", "FetchFailure", step)
             /\ fs' = [fs EXCEPT !.pbf = "absent"]

\* reqwest::blocking::get(..)?
DownloadGet ==
    /\ pc = "download_get"
    /\ \/ /\ pc' = "download_create"
          /\ UNCHANGED <<fs, exitVars>>
       \/ FetchFailed("get")
    /\ UNCHANGED <<disk, osm, fs0, ingestVars, buildVars, searchVars, walkVars>>

\* BufWriter::new(File::create(pbf_path)?)
DownloadCreate ==
    /\ pc = "download_create"
    /\ \/ /\ fs' = [fs EXCEPT !.pbf = "partial"]
          /\ pc' = "download_copy"
          /\ UNCHANGED exitVars
       \/ FetchFailed("create_pbf")
    /\ UNCHANGED <<disk, osm, fs0, ingestVars, buildVars, searchVars, walkVars>>

\* resp.copy_to(&mut pbf_file)?; Ok(()).  The BufWriter is flushed when it is
\* dropped, and a failure of that flush is discarded.
DownloadCopy ==
    /\ pc = "download_copy"
    /\ \/ /\ fs' = [fs EXCEPT !.pbf = "complete"]
          /\ pc' = "open_pbf"
          /\ UNCHANGED exitVars
       \/ /\ pc' = "open_pbf"
          /\ UNCHANGED <<fs, exitVars>>
       \/ FetchFailed("copy_pbf")
    /\ UNCHANGED <<disk, osm, fs0, ingestVars, buildVars, searchVars, walkVars>>

\* OsmPbfReader::new(BufReader::new(File::open(PBF_PATH)?))
OpenPbf ==
    /\ pc = "open_pbf"
    /\ \/ /\ pc' = "ingest"
          /\ UNCHANGED exitVars
       \/ Exit("error", "Io", "open_pbf")
    /\ UNCHANGED <<fileVars, osm, fs0, ingestVars, buildVars, searchVars, walkVars>>

\* One iteration of `for osm_obj in pbf_reader.par_iter().map(Result::unwrap)`.
ReadObj ==
    /\ pc = "ingest"
    /\ pos <= Len(osm)
    /\ LET st == IngestObj([nodes |-> nodes, ways |-> ways, panic |-> FALSE], osm[pos])
       IN  IF st.panic
               THEN /\ Exit("panic", "none", "none")
                    /\ UNCHANGED ingestVars
               ELSE /\ nodes' = st.nodes
                    /\ ways' = st.ways
                    /\ pos' = pos + 1
                    /\ UNCHANGED <<pc, exitVars>>
    /\ UNCHANGED <<fileVars, osm, fs0, buildVars, searchVars, walkVars>>

\* The reader reaches the cut of a truncated dump: Result::unwrap panics.
ReadTruncated ==
    /\ pc = "ingest"
    /\ fs.pbf = "partial"
    /\ Exit("panic", "none", "none")
    /\ UNCHANGED <<fileVars, osm, fs0, ingestVars, buildVars, searchVars, walkVars>>

\* The stream ends.
EndOfStream ==
    /\ pc = "ingest"
    /\ pos > Len(osm)
    /\ fs.pbf = "complete"
    /\ pc' = "build"
    /\ UNCHANGED <<fileVars, osm, fs0, ingestVars, buildVars, searchVars,
                   walkVars, exitVars>>

\* One iteration of `for way in ways`.
BuildWay ==
    /\ pc = "build"
    /\ wi <= Len(ways)
    /\ LET g == AddWay([adj_list |-> adj_list, node_ids |-> node_ids, panic |-> FALSE],
                       nodes, ways[wi])
       IN  IF g.panic
               THEN /\ Exit("panic", "none", "none")
                    /\ UNCHANGED buildVars
               ELSE /\ adj_list' = g.adj_list
                    /\ node_ids' = g.node_ids
                    /\ wi' = wi + 1
                    /\ UNCHANGED <<pc, exitVars>>
    /\ UNCHANGED <<fileVars, osm, fs0, ingestVars, searchVars, walkVars>>

\* The loop over the ways ends: the node table is pruned.
PruneNodes ==
    /\ pc = "build"
    /\ wi > Len(ways)
    /\ nodes' = Prune(nodes, node_ids)
    /\ pc' = "write_nodes"
    /\ UNCHANGED <<fileVars, osm, fs0, pos, ways, buildVars, searchVars,
                   walkVars, exitVars>>

\* serde_json::to_writer_pretty(BufWriter::new(File::create(nodes_json_path)?), &nodes)?
\* File::create fails; or the write fails with the file created; or all is
\* written; or the flush of the dropped BufWriter fails and is discarded.
WriteNodes ==
    /\ pc = "write_nodes"
    /\ \/ /\ Exit("error", "Io", "create_nodes_json")
          /\ UNCHANGED fileVars
       \/ /\ Exit("error", "Io", "write_nodes_json")
          /\ fs' = [fs EXCEPT !.nodes_json = "partial"]
          /\ UNCHANGED disk
       \/ /\ fs' = [fs EXCEPT !.nodes_json = "complete"]
          /\ disk' = [disk EXCEPT !.nodes = nodes]
          /\ pc' = "write_adj_list"
          /\ UNCHANGED exitVars
       \/ /\ fs' = [fs EXCEPT !.nodes_json = "partial"]
          /\ pc' = "write_adj_list"
          /\ UNCHANGED <<disk, exitVars>>
    /\ UNCHANGED <<osm, fs0, ingestVars, buildVars, searchVars, walkVars>>

\* serde_json::to_writer_pretty(BufWriter::new(File::create(adj_list_json_path)?), &adj_list)?
WriteAdjList ==
    /\ pc = "write_adj_list"
    /\ \/ /\ Exit("error", "Io", "create_adj_list_json")
          /\ UNCHANGED fileVars
       \/ /\ Exit("error", "Io", "write_adj_list_json")
          /\ fs' = [fs EXCEPT !.adj_list_json = "partial"]
          /\ UNCHANGED disk
       \/ /\ fs' = [fs EXCEPT !.adj_list_json = "complete"]
          /\ disk' = [disk EXCEPT !.adj_list = adj_list]
          /\ pc' = "search_init"
          /\ UNCHANGED exitVars
       \/ /\ fs' = [fs EXCEPT !.adj_list_json = "partial"]
          /\ pc' = "search_init"
          /\ UNCHANGED <<disk, exitVars>>
    /\ UNCHANGED <<osm, fs0, ingestVars, buildVars, searchVars, walkVars>>

SetSearch(s) ==
    /\ queue' = s.queue
    /\ parent' = s.parent
    /\ settled' = s.settled
    /\ dist' = s.dist
    /\ current' = s.current

\* queue.push(Reverse((0u64, START_NODE_ID))); parent.insert(START_NODE_ID, NodeId(-1))
SeedSearch ==
    /\ pc = "search_init"
    /\ SetSearch(SearchInit)
    /\ pc' = "search"
    /\ UNCHANGED <<fileVars, osm, fs0, ingestVars, buildVars, walkVars, exitVars>>

\* queue.pop() yields an entry: one iteration of the search loop.
Pop ==
    /\ pc = "search"
    /\ Len(queue) > 0
    /\ LET s == PopStep([queue |-> queue, parent |-> parent, settled |-> settled,
                         dist |-> dist, current |-> current, goal |-> FALSE], adj_list)
       IN  /\ SetSearch(s)
           /\ pc' = IF s.goal THEN "reconstruct" ELSE "search"
    /\ UNCHANGED <<fileVars, osm, fs0, ingestVars, buildVars, walkVars, exitVars>>

\* queue.pop() yields None: the loop ends without the goal.
FrontierEmpty ==
    /\ pc = "search"
    /\ Len(queue) = 0
    /\ pc' = "reconstruct"
    /\ UNCHANGED <<fileVars, osm, fs0, ingestVars, buildVars, searchVars,
                   walkVars, exitVars>>

SetWalk(w) ==
    /\ cur_id' = w.cur_id
    /\ coords' = w.coords
    /\ route' = w.route

\* cur_id = GOAL_NODE_ID; coords.push_front(nodes[&GOAL_NODE_ID] ..)
BeginWalk ==
    /\ pc = "reconstruct"
    /\ LET w == WalkInit(nodes)
       IN  /\ SetWalk(w)
           /\ IF w.panic
                  THEN Exit("panic", "none", "none")
                  ELSE /\ pc' = "walk"
                       /\ UNCHANGED exitVars
    /\ UNCHANGED <<fileVars, osm, fs0, ingestVars, buildVars, searchVars>>

\* One iteration of `while cur_id != START_NODE_ID`.
Walk ==
    /\ pc = "walk"
    /\ cur_id # START_NODE_ID
    /\ LET w == WalkStep([cur_id |-> cur_id, coords |-> coords, route |-> route,
                          panic |-> FALSE], nodes, parent)
       IN  /\ SetWalk(w)
           /\ IF w.panic
                  THEN Exit("panic", "none", "none")
                  ELSE UNCHANGED <<pc, exitVars>>
    /\ UNCHANGED <<fileVars, osm, fs0, ingestVars, buildVars, searchVars>>

\* fs::write(RESULT_PATH, polyline::encode_coordinates(coords, 5).unwrap())
\* The polyline is held as the coordinates it encodes.
WriteResult ==
    /\ pc = "walk"
    /\ cur_id = START_NODE_ID
    /\ \/ /\ fs' = [fs EXCEPT !.result = "complete"]
          /\ disk' = [disk EXCEPT !.result = coords]
          /\ Exit("ok", "none", "none")
       \/ /\ Exit("error", "Io", "create_result")
          /\ UNCHANGED fileVars
       \/ /\ Exit("error", "Io", "write_result")
          /\ fs' = [fs EXCEPT !.result = "partial"]
          /\ UNCHANGED disk
    /\ UNCHANGED <<osm, fs0, ingestVars, buildVars, searchVars, walkVars>>

Next ==
    \/ CheckCache
    \/ LoadNodes
    \/ LoadAdjList
    \/ DownloadGet
    \/ DownloadCreate
    \/ DownloadCopy
    \/ OpenPbf
    \/ ReadObj
    \/ ReadTruncated
    \/ EndOfStream
    \/ BuildWay
    \/ PruneNodes
    \/ WriteNodes
    \/ WriteAdjList
    \/ SeedSearch
    \/ Pop
    \/ FrontierEmpty
    \/ BeginWalk
    \/ Walk
    \/ WriteResult

Spec == Init /\ [][Next]_vars

(***************************************************************************)
(* Vocabulary of the properties.                                           *)
(***************************************************************************)
\* The invocation took the graph from the cache artifacts.
Loaded == fs0.nodes_json # "absent" /\ fs0.adj_list_json # "absent"

\* The search loop has run and ended by popping the goal.
GoalPopped == pc \in {"reconstruct", "walk", "exit"} /\ current = GOAL_NODE_ID

\* The search loop has run and ended on an empty frontier.
FrontierExhausted ==
    /\ pc \in {"reconstruct", "walk", "exit"}
    /\ START_NODE_ID \in DOMAIN parent
    /\ current # GOAL_NODE_ID
    /\ Len(queue) = 0

\* The nearest integer to w / 10, halves away from zero: round(weightMeters * 1000).
RoundMm(w) == CHOOSE m \in 0 .. (w \div 10 + 1) : 10 * m - 5 <= w /\ w < 10 * m + 5

Min(S) == CHOOSE x \in S : \A y \in S : x <= y

EdgeIndexes(adj, u, v) ==
    IF u \in DOMAIN adj THEN {i \in 1 .. Len(adj[u]) : adj[u][i][1] = v} ELSE {}

GraphNodes(adj) ==
    DOMAIN adj \cup UNION {{adj[u][i][1] : i \in 1 .. Len(adj[u])} : u \in DOMAIN adj}

\* One round of relaxation of the map d of the least distances known.
RelaxAll(d, adj) ==
    LET cand(v) ==
            (IF v \in DOMAIN d THEN {d[v]} ELSE {})
            \cup UNION {{d[u] + RoundMm(adj[u][i][2]) : i \in EdgeIndexes(adj, u, v)} :
                            u \in DOMAIN d}
    IN  [v \in {n \in GraphNodes(adj) \cup DOMAIN d : cand(n) # {}} |-> Min(cand(v))]

RECURSIVE RelaxRounds(_, _, _)
RelaxRounds(d, adj, k) == IF k = 0 THEN d ELSE RelaxRounds(RelaxAll(d, adj), adj, k - 1)

\* The least total weight in millimetres of the paths from the source to each node.
ShortestMm(adj) ==
    RelaxRounds(Insert(EmptyMap, START_NODE_ID, 0), adj, Cardinality(GraphNodes(adj)))

(***************************************************************************)
(* C1.  When the search loop ends by popping the goal, the distance the    *)
(* goal is popped with is the least total weight, in integer millimetres,  *)
(* of the paths from the source to the goal in the adjacency graph.        *)
(***************************************************************************)
C1_RouteIsShortest ==
    (pc = "reconstruct" /\ GoalPopped) => dist = ShortestMm(adj_list)[GOAL_NODE_ID]

(***************************************************************************)
(* C2.  When the frontier empties without the goal being popped, the       *)
(* invocation ends in the error NoRouteFound: it does not panic and writes *)
(* no result artifact.                                                     *)
(***************************************************************************)
C2_NoRouteFound ==
    (pc = "exit" /\ FrontierExhausted) =>
        /\ outcome = "error"
        /\ err = "NoRouteFound"
        /\ fs.result = "absent"

(***************************************************************************)
(* C3.  The ways the ingestion has kept are exactly the ways read so far   *)
(* that have a highway key, have no surface key or a surface among paved,  *)
(* asphalt, concrete and paving_stones, and carry none of the pairs        *)
(* highway=motorway, highway=motorway_link, access=agricultural,           *)
(* access=delivery, access=forestry, access=use_sidepath.                  *)
(***************************************************************************)
CyclableByRule(tags) ==
    /\ tags["highway"] # NoTag
    /\ tags["surface"] \in {NoTag, "paved", "asphalt", "concrete", "paving_stones"}
    /\ tags["highway"] \notin {"motorway", "motorway_link"}
    /\ tags["access"] \notin {"agricultural", "delivery", "forestry", "use_sidepath"}

ObjsRead == SubSeq(osm, 1, pos - 1)

C3_WayFilter ==
    ways = SelectSeq(ObjsRead, LAMBDA o : o.kind = "way" /\ CyclableByRule(o.tags))

\* A way with highway=residential and no surface was kept, though one-way.
C3_Witness ==
    /\ pc = "build"
    /\ Len(ways) = 1
    /\ ways[1].tags = OnewayTags
    /\ \E i \in 1 .. Len(osm) : osm[i].kind = "way"

\* A way with surface=dirt was dropped.
C3_WitnessRejected ==
    /\ pc = "build"
    /\ ways = <<>>
    /\ \E i \in 1 .. Len(osm) :
        /\ osm[i].kind = "way"
        /\ osm[i].tags["highway"] = "residential"
        /\ osm[i].tags["surface"] = "dirt"

(***************************************************************************)
(* C7.  An invocation that found neither cache artifact ends with both     *)
(* artifacts completely written or with neither present.                   *)
(***************************************************************************)
C7_CacheAllOrNothing ==
    (pc = "exit" /\ fs0.nodes_json = "absent" /\ fs0.adj_list_json = "absent") =>
        \/ fs.nodes_json = "complete" /\ fs.adj_list_json = "complete"
        \/ fs.nodes_json = "absent" /\ fs.adj_list_json = "absent"

(***************************************************************************)
(* C8.  When the download fails at the request, at the creation of the     *)
(* local file or at the copy, the invocation ends with no file at the path *)
(* of the dump and with the download's failure as its error, having read   *)
(* no object and written no cache or result artifact.                      *)
(***************************************************************************)
C8_FetchFailurePropagated ==
    (pc = "exit" /\ failed \in {"get", "create_pbf", "copy_pbf"}) =>
        /\ fs.pbf = "absent"
        /\ outcome = "error"
        /\ err = "FetchFailure"
        /\ pos = 1
        /\ fs.nodes_json = fs0.nodes_json
        /\ fs.adj_list_json = fs0.adj_list_json
        /\ fs.result = "absent"

(***************************************************************************)
(* C4.  After graph construction, for every pair of nodes (u, v), the      *)
(* edges u->v of the adjacency graph are as many as the consecutive pairs  *)
(* (u, v) of the accepted ways plus the consecutive pairs (v, u) of the    *)
(* accepted ways not tagged oneway=yes, and each weighs the distance       *)
(* between u and v: every pair contributes its forward edge, its reverse   *)
(* edge exactly when the way is not one-way, and nothing else is an edge.  *)
(***************************************************************************)
\* The graph was built by this invocation and the node table pruned.
Built ==
    /\ ~Loaded
    /\ \/ pc \in {"write_nodes", "write_adj_list", "search_init", "search",
                  "reconstruct", "walk"}
       \/ pc = "exit" /\ START_NODE_ID \in DOMAIN parent

\* The consecutive pairs (u, v) of the accepted ways, of all or of the two-way ones.
PairsOf(u, v, two_way_only) ==
    UNION {{<<k, i>> : i \in {j \in 1 .. (Len(ways[k].nodes) - 1) :
                                /\ ways[k].nodes[j] = u
                                /\ ways[k].nodes[j + 1] = v
                                /\ (two_way_only => ways[k].tags["oneway"] # "yes")}} :
            k \in 1 .. Len(ways)}

C4_EdgesFromWays ==
    Built =>
        /\ DOMAIN adj_list \subseteq NodeIds
        /\ \A u \in DOMAIN adj_list : adj_list[u] # <<>>
        /\ \A u, v \in GraphNodes(adj_list) \cup NodeIds :
            /\ Cardinality(EdgeIndexes(adj_list, u, v))
                 = Cardinality(PairsOf(u, v, FALSE)) + Cardinality(PairsOf(v, u, TRUE))
            /\ \A i \in EdgeIndexes(adj_list, u, v) :
                 adj_list[u][i][2] = LatStep * Abs(nodes[u].lat - nodes[v].lat)

\* A one-way way of three nodes and a two-way way of two nodes were built.
C4_Witness ==
    /\ Built
    /\ pc = "write_nodes"
    /\ Len(ways) = 2
    /\ ways[1].tags["oneway"] = "yes"
    /\ Len(ways[1].nodes) = 3
    /\ ways[2].tags["oneway"] # "yes"
    /\ Len(ways[2].nodes) = 2
    /\ ways[2].nodes[1] # ways[2].nodes[2]

(***************************************************************************)
(* C5.  After a fresh build the keys of the pruned node table are exactly  *)
(* the nodes that are the source or the target of an edge, each of them a  *)
(* node of a consecutive pair of an accepted way.                          *)
(***************************************************************************)
C5_PrunedNodeTable ==
    Built =>
        /\ DOMAIN nodes = GraphNodes(adj_list)
        /\ \A n \in DOMAIN nodes :
            \E v \in NodeIds : PairsOf(n, v, FALSE) \cup PairsOf(v, n, FALSE) # {}

\* A node read from the dump, and part only of a rejected way, was pruned.
C5_Witness ==
    /\ Built
    /\ pc = "write_nodes"
    /\ ways = <<>>
    /\ \E i, j \in 1 .. Len(osm) :
        /\ osm[i].kind = "node"
        /\ osm[j].kind = "way"
        /\ osm[j].tags["surface"] = "dirt"
        /\ \E k \in 1 .. Len(osm[j].nodes) : osm[j].nodes[k] = osm[i].id
        /\ osm[i].id \notin DOMAIN nodes

(***************************************************************************)
(* C6.  The route does not depend on the order in which the objects of the *)
(* dump arrive: an invocation that no I/O failure stops ends as the        *)
(* computation on its objects does, and as the computation on the same     *)
(* objects with any two neighbours exchanged does (such exchanges generate *)
(* every reordering).                                                      *)
(***************************************************************************)
SwapAdjacent(s, i) ==
    [j \in 1 .. Len(s) |-> IF j = i THEN s[i + 1] ELSE IF j = i + 1 THEN s[i] ELSE s[j]]

Observed ==
    IF outcome = "ok"
        THEN [outcome |-> "ok", route |-> route, coords |-> coords, dist |-> dist]
        ELSE Panicked

C6_ArrivalOrder ==
    (/\ pc = "exit"
     /\ ~Loaded
     /\ fs.pbf = "complete"
     /\ outcome \in {"ok", "panic"}) =>
        /\ RouteOf(osm) = Observed
        /\ \A i \in 1 .. (Len(osm) - 1) : RouteOf(SwapAdjacent(osm, i)) = Observed

\* A route was found from a dump whose two ways arrive before its nodes.
C6_Witness ==
    /\ pc = "exit"
    /\ ~Loaded
    /\ outcome = "ok"
    /\ Len(osm) = MaxNode + 2
    /\ osm[1].kind = "way"
    /\ osm[2].kind = "way"
    /\ osm[1] # osm[2]
    /\ Len(route) = 2

(***************************************************************************)
(* C9.  When the search loop has ended by popping the goal, the walk over  *)
(* the predecessor links reads no absent entry; the nodes collected so     *)
(* far lead from the current node to the goal along edges of the graph     *)
(* without repeating a node, and the coordinates collected are theirs;     *)
(* when the walk has ended, the first of them is the source.               *)
(***************************************************************************)
C9_RouteShape ==
    (GoalPopped /\ pc \in {"walk", "exit"}) =>
        /\ outcome # "panic"
        /\ Len(route) >= 1
        /\ route[1] = cur_id
        /\ route[Len(route)] = GOAL_NODE_ID
        /\ pc = "exit" => cur_id = START_NODE_ID
        /\ \A i, j \in 1 .. Len(route) : i # j => route[i] # route[j]
        /\ \A i \in 1 .. (Len(route) - 1) :
                EdgeIndexes(adj_list, route[i], route[i + 1]) # {}
        /\ coords = [i \in 1 .. Len(route) |-> [x |-> nodes[route[i]].lon,
                                                y |-> nodes[route[i]].lat]]
        /\ outcome = "ok" => disk.result = coords

\* A route of three nodes was written from a cached graph.
C9_Witness ==
    /\ pc = "exit"
    /\ Loaded
    /\ outcome = "ok"
    /\ Len(route) = 3
    /\ route[1] = START_NODE_ID
    /\ route[3] = GOAL_NODE_ID

(***************************************************************************)
(* C10.  The source is seeded with distance 0; every other entry (d, v)    *)
(* of the frontier has d = (the distance its predecessor was popped with)  *)
(* + round(w * 1000) for an edge of weight w from the predecessor to v;    *)
(* and the distance the goal is popped with is the sum of such rounded     *)
(* weights of edges joining the consecutive nodes of the route.            *)
(***************************************************************************)
RECURSIVE PathSums(_, _)
PathSums(r, i) ==
    IF i >= Len(r)
        THEN {0}
        ELSE {RoundMm(adj_list[r[i]][j][2]) + rest :
                j \in EdgeIndexes(adj_list, r[i], r[i + 1]), rest \in PathSums(r, i + 1)}

C10_Distances ==
    /\ \A k \in 1 .. Len(queue) :
        LET d == queue[k][1]
            v == queue[k][2]
        IN  /\ v \in DOMAIN parent
            /\ IF parent[v] = NoParent
                   THEN d = 0 /\ v = START_NODE_ID
                   ELSE /\ parent[v] \in DOMAIN settled
                        /\ \E i \in EdgeIndexes(adj_list, parent[v], v) :
                              d = settled[parent[v]] + RoundMm(adj_list[parent[v]][i][2])
    /\ (GoalPopped /\ pc \in {"walk", "exit"} /\ cur_id = START_NODE_ID) =>
            dist \in PathSums(route, 1)

\* A route of two edges, one rounded down and one rounded up, was found.
C10_Witness ==
    /\ pc = "exit"
    /\ ~Loaded
    /\ outcome = "ok"
    /\ Len(route) = 3
    /\ dist = 4

====
